---- MODULE Spec2Model ----
(***************************************************************************)
(* State-machine model of esm/esmfold/v1/pretrained.py: the checkpoint     *)
(* loader _load_model and the two selectors esmfold_v0 / esmfold_v1.       *)
(*                                                                         *)
(* One call is modelled from entry to its outcome.  The statements of      *)
(* _load_model are separate steps (pc is the line about to run), so that   *)
(* the order of its effects is observable; at every pc exactly one step    *)
(* is enabled, so no step can be skipped.  Strings are real strings:       *)
(* startswith, the substring test, as_posix and the message's join are     *)
(* computed character by character.                                        *)
(***************************************************************************)
EXTENDS Integers, Sequences, FiniteSets, TLC

VARIABLES
    pc,                      \* position of the call: "idle", a line of _load_model, "done"
    fn,                      \* the function the caller invoked
    path,                    \* the argument: [type, parts]
    file,                    \* what the file system holds at str(path)
    model_data,              \* line 27
    cfg,                     \* line 29
    model_state,             \* line 31
    model,                   \* line 33: the model's state_dict
    expected_keys,           \* line 36
    found_keys,              \* line 38
    missing_essential_keys,  \* line 41
    result,                  \* the call's outcome
    log                      \* history: the steps of _load_model performed so far

vars == <<pc, fn, path, file, model_data, cfg, model_state, model,
          expected_keys, found_keys, missing_essential_keys, result, log>>

----------------------------------------------------------------------------
(* Bounds of the model *)

\* Largest number of parent directories in a path.
MaxDepth == 1

\* Tensor shapes are 1..MaxShape; a freshly constructed parameter has shape 1.
MaxShape == 2

----------------------------------------------------------------------------
(* Strings *)

\* str.startswith(prefix)
StartsWith(s, prefix) ==
    /\ Len(s) >= Len(prefix)
    /\ SubSeq(s, 1, Len(prefix)) = prefix

\* sub in s
Contains(s, sub) ==
    \E i \in 1..(Len(s) - Len(sub) + 1) : SubSeq(s, i, i + Len(sub) - 1) = sub

\* sep.join(parts)
RECURSIVE Join(_, _)
Join(parts, sep) ==
    IF parts = <<>> THEN ""
    ELSE IF Len(parts) = 1 THEN parts[1]
    ELSE parts[1] \o sep \o Join(Tail(parts), sep)

----------------------------------------------------------------------------
(* Inputs *)

\* Parameter names: one in the optional namespace, one that begins with "esm"
\* but not "esm.", one that holds "esm." at a later position, and a plain one.
Keys == {"esm.w", "esm_s_combine", "trunk.esm.w", "trunk.w"}

Shapes == 1..MaxShape

\* A checkpoint tensor: its shape; val tells checkpoint values from initial ones.
CkptTensors == [shape : Shapes, val : {"ckpt"}]

\* The flat mapping of parameter names to tensors, on any set of names.
StateDicts == UNION {[K -> CkptTensors] : K \in SUBSET Keys}

\* cfg.model: the configuration decides which parameters the model has.
Configs == [params : SUBSET Keys]

\* What torch.load can return: a mapping with both fields, or one lacking
\* "model", "cfg", or the "model" entry of "cfg".
WellFormedCheckpoints == [cfg : [model : Configs], model : StateDicts]

MalformedCheckpoints ==
    {  [cfg |-> [model |-> [params |-> {"trunk.w"}]]],
       [model |-> [k \in {"trunk.w"} |-> [shape |-> 1, val |-> "ckpt"]]],
       [cfg |-> [other |-> TRUE],
        model |-> [k \in {"trunk.w"} |-> [shape |-> 1, val |-> "ckpt"]]]  }

NoFile == [exists |-> FALSE]

Files == WellFormedCheckpoints \cup MalformedCheckpoints \cup {NoFile}

\* Path components.
DirNames == {"esmfold_3B_v0", "ckpts"}
FileNames == {"esmfold_3B_v0.pt", "esmfold_3B_v1.pt", "model.pt"}

RECURSIVE DirSeqs(_)
DirSeqs(n) ==
    IF n = 0 THEN {<<>>}
    ELSE DirSeqs(n - 1) \cup
         {Append(d, x) : d \in {s \in DirSeqs(n - 1) : Len(s) = n - 1}, x \in DirNames}

\* The argument is a plain string or a pathlib.Path.
Paths == [type : {"str", "Path"},
          parts : {Append(d, f) : d \in DirSeqs(MaxDepth), f \in FileNames}]

Unset == [unset |-> TRUE]
NoResult == [kind |-> "none", exc |-> "", what |-> "", msg |-> ""]

----------------------------------------------------------------------------
(* Pure parts of the code *)

\* path.as_posix(): the components joined by "/".
as_posix(p) == Join(p.parts, "/")

\* str(model_path)
str(p) == Join(p.parts, "/")

\* Variant: the test looks at the final component only (path.name).
matches_v0_name(p) == Contains(p.parts[Len(p.parts)], "esmfold_3B_v0")

\* line 64: "esmfold_3B_v0" in path.as_posix()
matches_v0(p) == Contains(as_posix(p), "esmfold_3B_v0")

\* line 77: "esmfold_3B_v1" in path.as_posix()
matches_v1(p) == Contains(as_posix(p), "esmfold_3B_v1")

\* Variant: "esm." in missing_key
is_optional_anywhere(key) == Contains(key, "esm.")

\* Variant: missing_key.startswith("esm")
is_optional_nodot(key) == StartsWith(key, "esm")

\* line 43: missing_key.startswith("esm.")
is_optional(key) == StartsWith(key, "esm.")

\* Variant: every missing key is appended, optional or not.
essential_all(order) == order

\* lines 41-44: the keys of the iteration, in its order, that are not optional.
essential(order) == SelectSeq(order, LAMBDA k : ~is_optional(k))

\* Variant: the text names the first key only.
message_first(keys) == "Keys '" \o keys[1] \o "' are missing."

\* line 49: the text of the RuntimeError.
message(keys) == "Keys '" \o Join(keys, ", ") \o "' are missing."

\* The orders in which a Python set can be iterated: any order, each
\* element once.
Orders(S) ==
    {s \in [1..Cardinality(S) -> S] : \A i, j \in 1..Cardinality(S) : s[i] = s[j] => i = j}

\* ESMFold(esmfold_config=cfg).state_dict(): the parameters the configuration
\* asks for, freshly initialised.
new_state_dict(c) == [k \in c.params |-> [shape |-> 1, val |-> "init"]]

\* Variant: strict=True, where a name only in the checkpoint is an error too.
size_mismatch_strict(m, sd) ==
    {k \in DOMAIN m \cap DOMAIN sd : m[k].shape # sd[k].shape} \cup (DOMAIN sd \ DOMAIN m)

\* load_state_dict(strict=False): the names of both mappings whose tensors
\* have different shapes; strict=False does not silence these.
size_mismatch(m, sd) ==
    {k \in DOMAIN m \cap DOMAIN sd : m[k].shape # sd[k].shape}

\* Variant: nothing is copied.
loaded_nothing(m, sd) == m

\* load_state_dict(strict=False): names only in the checkpoint are ignored,
\* names only in the model keep their value, a shared name of the same shape
\* takes the checkpoint's tensor.
loaded(m, sd) ==
    [k \in DOMAIN m |->
        IF k \in DOMAIN sd /\ m[k].shape = sd[k].shape THEN sd[k] ELSE m[k]]

\* Variant: the weights are loaded before the keys are checked.
after_load_first(label) ==
    CASE label = "l27" -> "l29"
      [] label = "l29" -> "l31"
      [] label = "l31" -> "l33"
      [] label = "l33" -> "l52"
      [] label = "l52" -> "l36"
      [] label = "l36" -> "l54"
      [] label = "l54" -> "done"

\* lines 26-54: the statements of _load_model run in the order written.
after(label) ==
    CASE label = "l27" -> "l29"
      [] label = "l29" -> "l31"
      [] label = "l31" -> "l33"
      [] label = "l33" -> "l36"
      [] label = "l36" -> "l52"
      [] label = "l52" -> "l54"
      [] label = "l54" -> "done"

\* Outcomes: a return (of the model, or of None) or a raised exception.
Returned(kind) == [kind |-> kind, exc |-> "", what |-> "", msg |-> ""]
Raised(exc, what, text) == [kind |-> "raise", exc |-> exc, what |-> what, msg |-> text]

----------------------------------------------------------------------------
(* The state machine *)

Init ==
    /\ pc = "idle"
    /\ fn = ""
    /\ path = Unset
    /\ file = Unset
    /\ model_data = Unset
    /\ cfg = Unset
    /\ model_state = Unset
    /\ model = Unset
    /\ expected_keys = {}
    /\ found_keys = {}
    /\ missing_essential_keys = <<>>
    /\ result = NoResult
    /\ log = <<>>

locals == <<model_data, cfg, model_state, model,
            expected_keys, found_keys, missing_essential_keys>>

\* An exception leaves the call; nothing catches it.
Raise(exc, what, text) ==
    /\ result' = Raised(exc, what, text)
    /\ pc' = "done"

\* lines 64-66 / 77-79, for an argument p on which `matches` is the test:
\* a str has no as_posix; a matching path enters _load_model; any other
\* returns None.
dispatch(p, matches) ==
    IF p.type = "str"
    THEN /\ Raise("AttributeError", "as_posix", "'str' object has no attribute 'as_posix'")
         /\ log' = log
    ELSE IF matches
         THEN /\ pc' = "l27"
              /\ result' = result
              /\ log' = Append(log, "_load_model")
         ELSE /\ pc' = "done"
              /\ result' = Returned("None")
              /\ log' = log

\* lines 57-66
esmfold_v0 ==
    /\ pc = "idle"
    /\ \E p \in Paths, f \in Files :
          /\ fn' = "esmfold_v0"
          /\ path' = p
          /\ file' = f
          /\ dispatch(p, matches_v0(p))
    /\ UNCHANGED locals

\* lines 69-79
esmfold_v1 ==
    /\ pc = "idle"
    /\ \E p \in Paths, f \in Files :
          /\ fn' = "esmfold_v1"
          /\ path' = p
          /\ file' = f
          /\ dispatch(p, matches_v1(p))
    /\ UNCHANGED locals

\* line 13: _load_model called directly.
_load_model ==
    /\ pc = "idle"
    /\ \E p \in Paths, f \in Files :
          /\ fn' = "_load_model"
          /\ path' = p
          /\ file' = f
    /\ pc' = "l27"
    /\ log' = Append(log, "_load_model")
    /\ UNCHANGED <<locals, result>>

\* line 27: torch.load(str(model_path), map_location="cuda:0")
torch_load ==
    /\ pc = "l27"
    /\ IF file = NoFile
         THEN /\ Raise("FileNotFoundError", "open", str(path))
              /\ UNCHANGED <<model_data, log>>
         ELSE /\ model_data' = file
              /\ log' = Append(log, "deserialize")
              /\ pc' = after(pc)
              /\ result' = result
    /\ UNCHANGED <<fn, path, file, cfg, model_state, model,
                   expected_keys, found_keys, missing_essential_keys>>

\* line 29: cfg = model_data["cfg"]["model"]
get_cfg ==
    /\ pc = "l29"
    /\ IF "cfg" \notin DOMAIN model_data
         THEN Raise("KeyError", "lookup", "cfg") /\ cfg' = cfg
         ELSE IF "model" \notin DOMAIN model_data.cfg
              THEN Raise("KeyError", "lookup", "model") /\ cfg' = cfg
              ELSE /\ cfg' = model_data.cfg.model
                   /\ pc' = after(pc)
                   /\ result' = result
    /\ UNCHANGED <<fn, path, file, model_data, model_state, model,
                   expected_keys, found_keys, missing_essential_keys, log>>

\* line 31: model_state = model_data["model"]
get_model_state ==
    /\ pc = "l31"
    /\ IF "model" \notin DOMAIN model_data
         THEN Raise("KeyError", "lookup", "model") /\ model_state' = model_state
         ELSE /\ model_state' = model_data.model
              /\ pc' = after(pc)
              /\ result' = result
    /\ UNCHANGED <<fn, path, file, model_data, cfg, model,
                   expected_keys, found_keys, missing_essential_keys, log>>

\* line 33: model = ESMFold(esmfold_config=cfg)
ESMFold ==
    /\ pc = "l33"
    /\ model' = new_state_dict(cfg)
    /\ log' = Append(log, "construct")
    /\ pc' = after(pc)
    /\ UNCHANGED <<fn, path, file, model_data, cfg, model_state,
                   expected_keys, found_keys, missing_essential_keys, result>>

\* lines 36-49: the key sets, the loop over their difference in the set's
\* iteration order, and the raise.
check_keys ==
    /\ pc = "l36"
    /\ expected_keys' = DOMAIN model
    /\ found_keys' = DOMAIN model_state
    /\ \E order \in Orders(expected_keys' \ found_keys') :
          missing_essential_keys' = essential(order)
    /\ log' = Append(log, "validate")
    /\ IF missing_essential_keys' # <<>>
         THEN Raise("RuntimeError", "missing_keys", message(missing_essential_keys'))
         ELSE pc' = after(pc) /\ result' = result
    /\ UNCHANGED <<fn, path, file, model_data, cfg, model_state, model>>

\* line 52: model.load_state_dict(model_state, strict=False)
load_state_dict ==
    /\ pc = "l52"
    /\ model' = loaded(model, model_state)
    /\ log' = Append(log, "load_weights")
    /\ IF size_mismatch(model, model_state) # {}
         THEN Raise("RuntimeError", "size_mismatch", "Error(s) in loading state_dict")
         ELSE pc' = after(pc) /\ result' = result
    /\ UNCHANGED <<fn, path, file, model_data, cfg, model_state,
                   expected_keys, found_keys, missing_essential_keys>>

\* line 54 (and 65 / 78, which hand the model on): return model
return_model ==
    /\ pc = "l54"
    /\ result' = Returned("model")
    /\ log' = Append(log, "return")
    /\ pc' = after(pc)
    /\ UNCHANGED <<fn, path, file, locals>>

Next ==
    \/ esmfold_v0
    \/ esmfold_v1
    \/ _load_model
    \/ torch_load
    \/ get_cfg
    \/ get_model_state
    \/ ESMFold
    \/ check_keys
    \/ load_state_dict
    \/ return_model

Spec == Init /\ [][Next]_vars

----------------------------------------------------------------------------
(* Vocabulary of the properties, stated on the call's inputs and outcome *)

\* The file holds a checkpoint with cfg.model and model.
WellFormed(f) ==
    /\ "cfg" \in DOMAIN f
    /\ "model" \in DOMAIN f
    /\ "model" \in DOMAIN f.cfg

\* The names the constructed model expects / the names the checkpoint holds.
Expected == file.cfg.model.params
Found == DOMAIN file.model

\* The first four characters are e, s, m and a dot.
HasEsmDotPrefix(k) == Len(k) >= 4 /\ SubSeq(k, 1, 4) = "esm."

\* Expected names the checkpoint lacks, and those of them that are required.
Missing == Expected \ Found
MissingRequired == {k \in Missing : ~HasEsmDotPrefix(k)}

\* Shared names whose tensors differ in shape from a fresh parameter's.
ShapeClash == {k \in Expected \cap Found : file.model[k].shape # 1}

Selectors == {"esmfold_v0", "esmfold_v1"}
Identifier == IF fn = "esmfold_v0" THEN "esmfold_3B_v0" ELSE "esmfold_3B_v1"

\* The last component of the path, and the whole path as text.
FinalComponent == path.parts[Len(path.parts)]
WholePath == Join(path.parts, "/")

EnteredLoader == log # <<>>
MissingKeyError == result.kind = "raise" /\ result.what = "missing_keys"
ModelReturned == result.kind = "model"
NothingReturned == result.kind = "None"

\* The steps of _load_model, in the order they are written.
StepOrder == <<"_load_model", "deserialize", "construct", "validate", "load_weights", "return">>

IsPrefix(s, t) == Len(s) <= Len(t) /\ \A i \in 1..Len(s) : s[i] = t[i]

\* Reading an error text back: the position of the first ", ", the pieces
\* between separators, and the names between the quotes.
FirstSep(s) ==
    CHOOSE i \in 1..(Len(s) - 1) :
        /\ SubSeq(s, i, i + 1) = ", "
        /\ \A j \in 1..(i - 1) : SubSeq(s, j, j + 1) # ", "

RECURSIVE Split(_)
Split(s) ==
    IF ~Contains(s, ", ") THEN <<s>>
    ELSE <<SubSeq(s, 1, FirstSep(s) - 1)>> \o Split(SubSeq(s, FirstSep(s) + 2, Len(s)))

NamedKeys(text) == Split(SubSeq(text, 7, Len(text) - 14))

Range(s) == {s[i] : i \in 1..Len(s)}

----------------------------------------------------------------------------
(* Properties *)

\* C1: _load_model fails with the missing-key error if and only if some
\* expected name is absent from the checkpoint's weights and does not start
\* with "esm."; no other pair of key sets raises it, and the weight load is
\* reached only without such a name.
Thm_C1 ==
    /\ MissingKeyError => (WellFormed(file) /\ MissingRequired # {})
    /\ (pc \in {"l52", "l54"} \/ "load_weights" \in Range(log))
          => (WellFormed(file) /\ MissingRequired = {})
    /\ (pc = "done" /\ "construct" \in Range(log))
          => (MissingKeyError <=> MissingRequired # {})

Witness_C1 ==
    /\ pc = "done"
    /\ MissingKeyError
    /\ Cardinality(MissingRequired) = 1
    /\ Found \ Expected # {}

\* C2: the names read back from the missing-key error's text are exactly the
\* expected names absent from the checkpoint that do not start with "esm.",
\* each once; a single such name gives the text naming just it.
Thm_C2 ==
    MissingKeyError =>
        /\ Range(NamedKeys(result.msg)) = MissingRequired
        /\ Len(NamedKeys(result.msg)) = Cardinality(MissingRequired)
        /\ \A k \in Keys :
              MissingRequired = {k} => result.msg = "Keys '" \o k \o "' are missing."

Witness_C2 ==
    /\ MissingKeyError
    /\ Cardinality(MissingRequired) >= 2
    /\ "esm.w" \in Missing
    /\ Expected \cap Found # {}

\* C3 as stated: when every absent expected name starts with "esm.", the call
\* raises no missing-key error, runs the weight load and returns the model.
CE_C3 ==
    (pc = "done" /\ "construct" \in Range(log) /\ MissingRequired = {})
        => (~MissingKeyError /\ "load_weights" \in Range(log) /\ ModelReturned)

\* C3 amended: when every absent expected name starts with "esm.", the call
\* raises no missing-key error and runs the weight load; it returns the
\* constructed model exactly when no shared name differs in shape, and
\* otherwise the weight load raises.
Thm_C3 ==
    (pc = "done" /\ "construct" \in Range(log) /\ MissingRequired = {})
        => /\ ~MissingKeyError
           /\ "load_weights" \in Range(log)
           /\ ModelReturned <=> ShapeClash = {}
           /\ ModelReturned => DOMAIN model = Expected
           /\ ~ModelReturned => (result.kind = "raise" /\ result.what = "size_mismatch")

Witness_C3 ==
    /\ pc = "done"
    /\ ModelReturned
    /\ Missing # {}
    /\ MissingRequired = {}

\* C4 as stated, for path objects: a selector enters the loader exactly when
\* the path's final component contains its identifier, and returns nothing
\* otherwise.
CE_C4 ==
    (fn \in Selectors /\ path.type = "Path")
        => /\ EnteredLoader <=> Contains(FinalComponent, Identifier)
           /\ NothingReturned <=> ~Contains(FinalComponent, Identifier)

\* C4 amended: a selector enters the loader exactly when the path is a path
\* object whose whole text (all components joined by "/") contains its
\* identifier, and returns nothing exactly when the path is a path object
\* whose whole text does not contain it; a plain string is neither loaded nor
\* answered with nothing.
Thm_C4 ==
    fn \in Selectors
        => /\ EnteredLoader <=> (path.type = "Path" /\ Contains(WholePath, Identifier))
           /\ NothingReturned <=> (path.type = "Path" /\ ~Contains(WholePath, Identifier))

Witness_C4 ==
    /\ fn \in Selectors
    /\ path.type = "Path"
    /\ ~Contains(FinalComponent, Identifier)
    /\ Contains(WholePath, Identifier)
    /\ EnteredLoader

\* C5: a selector given its path as a plain string, with a checkpoint that
\* loads, ends in a documented outcome: the model, nothing, or the
\* missing-key error.
CE_C5 ==
    (/\ fn \in Selectors
     /\ pc = "done"
     /\ path.type = "str"
     /\ WellFormed(file)
     /\ ShapeClash = {})
        => (ModelReturned \/ NothingReturned \/ MissingKeyError)

\* C6: on success extra checkpoint names are ignored, every expected name the
\* checkpoint holds has the checkpoint's tensor, every expected name it lacks
\* starts with "esm." and keeps its initial tensor; and extra names never
\* make a call fail that has its required names in matching shapes.
Thm_C6 ==
    /\ ModelReturned =>
          /\ DOMAIN model = Expected
          /\ \A k \in Expected \cap Found : model[k] = file.model[k]
          /\ \A k \in Expected \ Found :
                HasEsmDotPrefix(k) /\ model[k] = [shape |-> 1, val |-> "init"]
    /\ (/\ pc = "done"
        /\ "construct" \in Range(log)
        /\ MissingRequired = {}
        /\ ShapeClash = {}
        /\ Found \ Expected # {})
          => ModelReturned

Witness_C6 ==
    /\ ModelReturned
    /\ Found \ Expected # {}
    /\ Expected \cap Found # {}
    /\ Expected \ Found # {}

Thm_C8 ==
    /\ IsPrefix(log, StepOrder)
    /\ MissingKeyError =>
          /\ log = SubSeq(StepOrder, 1, 4)
          /\ pc = "done"
          /\ ~ModelReturned
          /\ \A k \in DOMAIN model : model[k].val = "init"
    /\ ModelReturned => log = StepOrder

Witness_C8 ==
    /\ MissingKeyError
    /\ log = SubSeq(StepOrder, 1, 4)
    /\ Expected \cap Found # {}

\* C9: a selector whose test fails on the path's text does no loading and
\* returns nothing, whatever the file holds.
CE_C9 ==
    (fn \in Selectors /\ pc = "done" /\ ~Contains(WholePath, Identifier))
        => /\ NothingReturned
           /\ log = <<>>
           /\ model_data = Unset
           /\ model = Unset

\* A name that resembles an optional one without being one: it starts with
\* "esm" not followed by a dot, or holds "esm." only after its first character.
NearMiss(k) ==
    /\ ~HasEsmDotPrefix(k)
    /\ \/ (Len(k) >= 3 /\ SubSeq(k, 1, 3) = "esm")
       \/ Contains(k, "esm.")

\* C10: the optional test is a prefix test on "esm." with the dot: an absent
\* expected name that starts with "esm" not followed by a dot, or holds
\* "esm." only after its first character, makes the call raise and is named;
\* absent names that start with "esm." alone never do.
Thm_C10 ==
    (pc = "done" /\ "validate" \in Range(log))
        => /\ \A k \in Missing :
                 NearMiss(k) => (MissingKeyError /\ k \in Range(missing_essential_keys))
           /\ (Missing # {} /\ \A k \in Missing : HasEsmDotPrefix(k)) => ~MissingKeyError

Witness_C10 ==
    /\ MissingKeyError
    /\ \E k \in Missing : HasEsmDotPrefix(k)
    /\ \E k \in Missing : NearMiss(k) /\ SubSeq(k, 1, 3) = "esm"
    /\ \E k \in Missing : NearMiss(k) /\ SubSeq(k, 1, 3) # "esm"

====
